---- MODULE Spec2Model ----
(***************************************************************************)
(* Model of unftp-sbe-fatfs (src/src/lib.rs): the read-only libunftp       *)
(* storage backend `Vfs` over a FAT image.                                 *)
(*                                                                         *)
(* Strings are sequences of character codes (47 = '/', 46 = '.',           *)
(* 65..90 = 'A'..'Z', 97..122 = 'a'..'z', 201 = U+00C9, 233 = U+00E9), so   *)
(* that splitting, trimming and ASCII case folding are computed the way    *)
(* the code computes them.                                                 *)
(***************************************************************************)
EXTENDS Integers, Sequences, FiniteSets

VARIABLES
    img_path,         \* Vfs.img_path, the only field of the backend
    volume,           \* what File::open + FileSystem::new find at img_path
    seek_beyond_end,  \* what the FAT library's File::seek does beyond the end
    pc,               \* per session: "idle", "opened" (after open_fs), "done"
    call,             \* per session: the operation in flight and its arguments
    ret,              \* per session: the Result the operation returned
    accessed,         \* per session: the call in flight has called open_fs
    in_comps,         \* normalisation check: the components of the input path
    raw_path,         \* normalisation check: the input path
    norm_path,        \* normalisation check: normalize_path(raw_path)
    dt,               \* timestamp check: Meta.modified (a fatfs::DateTime)
    modified_result   \* timestamp check: the Result of Meta::modified

vars == <<img_path, volume, seek_beyond_end, pc, call, ret, accessed,
          in_comps, raw_path, norm_path, dt, modified_result>>

fsVars == <<img_path, volume, seek_beyond_end>>
sessVars == <<pc, call, ret, accessed>>
normVars == <<in_comps, raw_path, norm_path>>
timeVars == <<dt, modified_result>>

-----------------------------------------------------------------------------
(* Results: Result<T, libunftp::storage::Error>, an error by its ErrorKind *)

Ok(v) == [ok |-> TRUE, val |-> v]
Err(kind) == [ok |-> FALSE, err |-> kind]

PermissionDenied == "PermissionDenied"
PermanentFileNotAvailable == "PermanentFileNotAvailable"
FileNameNotAllowedError == "FileNameNotAllowedError"
\* Error::from(io::Error): the kind is chosen by libunftp from the io error
FromIoError == "FromIoError"

-----------------------------------------------------------------------------
(* Strings                                                                 *)

\* str::trim_start_matches('/')
RECURSIVE trim_start_matches(_)
trim_start_matches(s) ==
    IF s # <<>> /\ Head(s) = 47 THEN trim_start_matches(Tail(s)) ELSE s

\* str::split('/'): every piece between separators, empty pieces kept
RECURSIVE split(_)
split(s) ==
    IF \A i \in 1..Len(s) : s[i] # 47 THEN <<s>>
    ELSE LET k == CHOOSE i \in 1..Len(s) :
                      s[i] = 47 /\ \A j \in 1..(i - 1) : s[j] # 47
         IN <<SubSeq(s, 1, k - 1)>> \o split(SubSeq(s, k + 1, Len(s)))

\* u8::to_ascii_lowercase: only 'A'..'Z' change
to_ascii_lowercase(c) == IF c \in 65..90 THEN c + 32 ELSE c

\* str::eq_ignore_ascii_case
eq_ignore_ascii_case(a, b) ==
    /\ Len(a) = Len(b)
    /\ \A i \in 1..Len(a) : to_ascii_lowercase(a[i]) = to_ascii_lowercase(b[i])

-----------------------------------------------------------------------------
(* std::path as normalize_path uses it                                     *)

DotName == <<46>>
DotDotName == <<46, 46>>

\* Path::components(): RootDir for a leading '/', then one component per
\* non-empty piece; "." is dropped except as the first piece of a relative path
components(path) ==
    LET pieces == split(path)
        has_root == path # <<>> /\ Head(path) = 47
        kind(i) ==
            IF pieces[i] = DotDotName THEN "ParentDir"
            ELSE IF pieces[i] = DotName THEN "CurDir"
            ELSE "Normal"
        kept == { i \in 1..Len(pieces) :
                    /\ pieces[i] # <<>>
                    /\ (pieces[i] = DotName => (i = 1 /\ ~has_root)) }
        RECURSIVE from(_)
        from(i) ==
            IF i > Len(pieces) THEN <<>>
            ELSE (IF i \in kept
                  THEN <<[kind |-> kind(i), name |-> pieces[i]]>>
                  ELSE <<>>) \o from(i + 1)
    IN (IF has_root THEN <<[kind |-> "RootDir", name |-> <<47>>]>> ELSE <<>>)
       \o from(1)

\* PathBuf::push of a Normal component (never absolute)
push(buf, name) ==
    IF buf = <<>> THEN name
    ELSE IF buf[Len(buf)] = 47 THEN buf \o name
    ELSE buf \o <<47>> \o name

\* pop that removes nothing: ".." is then skipped like "."
pop_nothing(buf) == buf

\* PathBuf::pop: truncate to the parent
pop(buf) ==
    LET slashes == { i \in 1..Len(buf) : buf[i] = 47 }
    IN IF slashes = {} THEN <<>>
       ELSE SubSeq(buf, 1,
                   (CHOOSE i \in slashes : \A j \in slashes : j <= i) - 1)

\* Vfs::normalize_path
normalize_path(path) ==
    LET comps == components(path)
        RECURSIVE loop(_, _)
        loop(i, result) ==
            IF i > Len(comps) THEN result
            ELSE LET c == comps[i]
                 IN CASE c.kind = "ParentDir" ->
                            loop(i + 1, IF result # <<>> THEN pop(result)
                                        ELSE result)
                      [] c.kind = "Normal" -> loop(i + 1, push(result, c.name))
                      [] c.kind = "CurDir" -> loop(i + 1, result)
                      [] OTHER -> loop(i + 1, result)
    IN loop(1, <<>>)

-----------------------------------------------------------------------------
(* Meta::modified and its helpers                                          *)
(*                                                                         *)
(* The model checker's integers are 32 bits wide, so a count of seconds    *)
(* (a u64 in the code) is kept as [s, d]: d * 86400 + s with s < 86400.    *)

DateTime(y, mo, d, h, mi, s) ==
    [year |-> y, month |-> mo, day |-> d, hour |-> h, min |-> mi, sec |-> s]

\* seconds from 1970-01-01 to 1980-01-01 (fat_epoch)
FatEpochSecs == 315532800

\* days * 86400 + secs, as a count of seconds
Seconds(days, secs) == [s |-> secs % 86400, d |-> days + (secs \div 86400)]

\* the sum of two counts of seconds
PlusSeconds(a, b) == Seconds(a.d + b.d, a.s + b.s)

DAYS_IN_MONTH == <<31, 28, 31, 30, 31, 30, 31, 31, 30, 31, 30, 31>>

\* u32 arithmetic wraps at 2^32 = 65536 * 65536
WrapU32(x) == ((x \div 65536) % 65536) * 65536 + (x % 65536)

\* the Julian rule: every fourth year
is_leap_year_julian(year) == year % 4 = 0

\* is_leap_year (year is a u16)
is_leap_year(year) ==
    (year % 4 = 0 /\ year % 100 # 0) \/ year % 400 = 0

\* days_since_1980: None, or Some(days) with days a u32.  The two loops add
\* non-negative terms, so their wrapped sum is the wrap of the exact sum.
days_since_1980(year, month, day) ==
    IF ~(month \in 1..12) \/ day < 1 THEN [some |-> FALSE]
    ELSE LET years == 1980..(year - 1)
             leap_years == Cardinality({ y \in years : is_leap_year(y) })
             year_days ==
                 366 * leap_years + 365 * (Cardinality(years) - leap_years)
             RECURSIVE month_days(_)
             month_days(m) ==
                 IF m >= month THEN 0
                 ELSE DAYS_IN_MONTH[m]
                      + (IF m = 2 /\ is_leap_year(year) THEN 1 ELSE 0)
                      + month_days(m + 1)
         IN [days |-> WrapU32(WrapU32(year_days + month_days(1))
                              + WrapU32(day - 1)),
             some |-> TRUE]

\* modified without the check of the year
modified_any_year(meta) ==
    LET t == meta.modified
    IN IF t.month = 0 \/ t.month > 12 \/ t.day = 0 \/ t.day > 31
       THEN Err(PermanentFileNotAvailable)
       ELSE LET days == days_since_1980(t.year, t.month, t.day)
            IN IF ~days.some THEN Err(PermanentFileNotAvailable)
               ELSE Ok(PlusSeconds(Seconds(0, FatEpochSecs),
                                   Seconds(days.days, t.hour * 3600
                                           + t.min * 60 + t.sec)))

\* Meta::modified: Ok(the instant, as seconds after the Unix epoch) or an error
modified(meta) ==
    LET t == meta.modified
    IN IF \/ t.year < 1980
          \/ t.month = 0
          \/ t.month > 12
          \/ t.day = 0
          \/ t.day > 31
       THEN Err(PermanentFileNotAvailable)
       ELSE LET days == days_since_1980(t.year, t.month, t.day)
            IN IF ~days.some THEN Err(PermanentFileNotAvailable)
               ELSE LET seconds == Seconds(days.days, t.hour * 3600
                                           + t.min * 60 + t.sec)
                    IN Ok(PlusSeconds(Seconds(0, FatEpochSecs), seconds))

-----------------------------------------------------------------------------
(* The FAT volume as the fatfs crate presents it                           *)
(*                                                                         *)
(* A volume maps a directory id (0 is the root) to what iterating that     *)
(* directory yields: its entries in on-disk order and, when `err` holds,   *)
(* an Err item after them (a corrupt chain).  The code stops at the first  *)
(* Err item, so what would follow it is never observed.                    *)

RootDir == 0

DirEntry(n, d, sub, bytes, t) ==
    [name |-> n, modified |-> t, is_dir |-> d, dir |-> sub, data |-> bytes,
     len |-> Len(bytes)]

\* DirEntry::is_file
is_file(entry) == ~entry.is_dir

\* what is at img_path: a FAT volume, or nothing File::open and
\* FileSystem::new accept
Image(dirs) == [dirs |-> dirs, valid |-> TRUE]
NoFs == [dirs |-> <<>>, valid |-> FALSE]

\* Vfs::open_fs
open_fs(image) == IF image.valid THEN Ok(image.dirs) ELSE Err(FromIoError)

\* the construction of Meta from a DirEntry (in metadata and in list)
Meta(entry) ==
    [modified |-> entry.modified, is_dir |-> entry.is_dir, len |-> entry.len]

\* one pass of `for entry_result in current_dir.iter()` looking for `component`:
\* the first entry whose name matches, else the Err item, else nothing
scan(dir, component) ==
    LET hits == { i \in 1..Len(dir.entries) :
                    eq_ignore_ascii_case(dir.entries[i].name, component) }
    IN IF hits # {}
       THEN [kind |-> "found",
             entry |-> dir.entries[CHOOSE i \in hits : \A j \in hits : i <= j]]
       ELSE IF dir.err THEN [kind |-> "read_error"]
       ELSE [kind |-> "not_found"]

\* the component loop of Vfs::find, from component i in directory `current_dir`
RECURSIVE walk(_, _, _, _)
walk(fs, current_dir, comps, i) ==
    IF i > Len(comps) THEN Err(PermanentFileNotAvailable)
    ELSE IF comps[i] = <<>> THEN walk(fs, current_dir, comps, i + 1)
    ELSE LET r == scan(fs[current_dir], comps[i])
         IN CASE r.kind = "read_error" -> Err(PermanentFileNotAvailable)
              [] r.kind = "not_found" -> Err(PermanentFileNotAvailable)
              [] OTHER ->
                    IF i = Len(comps) THEN Ok(r.entry)
                    ELSE IF r.entry.is_dir
                    THEN walk(fs, r.entry.dir, comps, i + 1)
                    ELSE Err(FileNameNotAllowedError)

\* Vfs::find
find(fs, ftp_path) ==
    LET path == normalize_path(ftp_path)
    IN IF path = <<47>> \/ path = <<>> THEN Err(FileNameNotAllowedError)
       ELSE walk(fs, RootDir, split(trim_start_matches(path)), 1)

\* metadata, after open_fs
metadata_found(fs, path) ==
    LET e == find(fs, path)
    IN IF ~e.ok THEN e ELSE Ok(Meta(e.val))

\* a listing that converts each timestamp as it goes and gives up on the
\* first it cannot convert
list_entries_strict(dir) ==
    IF dir.err THEN Err(PermanentFileNotAvailable)
    ELSE IF \E i \in 1..Len(dir.entries) : ~modified(Meta(dir.entries[i])).ok
    THEN Err(PermanentFileNotAvailable)
    ELSE Ok([i \in 1..Len(dir.entries) |->
                [path |-> dir.entries[i].name,
                 metadata |-> Meta(dir.entries[i])]])

\* the `for sub_result in dir.iter()` loop of list
list_entries(dir) ==
    IF dir.err THEN Err(PermanentFileNotAvailable)
    ELSE Ok([i \in 1..Len(dir.entries) |->
                [path |-> dir.entries[i].name,
                 metadata |-> Meta(dir.entries[i])]])

\* list, after open_fs
list_found(fs, path) ==
    IF path = <<47>> THEN list_entries(fs[RootDir])
    ELSE LET e == find(fs, path)
         IN IF ~e.ok THEN e
            ELSE IF is_file(e.val) THEN Err(FileNameNotAllowedError)
            ELSE list_entries(fs[e.val.dir])

\* file.seek(SeekFrom::Start(start_pos)): the new position or an error.
\* File::seek belongs to the fatfs crate; std::io::Seek leaves a seek beyond
\* the end to the implementation, which either refuses it or accepts it (the
\* following read then finds nothing, as at the end).
seek(entry, start_pos, beyond_end) ==
    IF start_pos <= entry.len THEN Ok(start_pos)
    ELSE IF beyond_end = "error" THEN Err(PermanentFileNotAvailable)
    ELSE Ok(entry.len)

\* a read that starts at the beginning whatever the position
read_from_start(entry, pos) == entry.data

\* file.read_to_end from position pos
read_to_end(entry, pos) == SubSeq(entry.data, pos + 1, Len(entry.data))

\* get, after open_fs
get_found(fs, path, start_pos, beyond_end) ==
    LET e == find(fs, path)
    IN IF ~e.ok THEN e
       ELSE IF e.val.is_dir THEN Err(FileNameNotAllowedError)
       ELSE LET pos == seek(e.val, start_pos, beyond_end)
            IN IF ~pos.ok THEN pos ELSE Ok(read_to_end(e.val, pos.val))

\* cwd, after open_fs
cwd_found(fs, path) ==
    IF path = <<47>> THEN Ok("unit")
    ELSE LET e == find(fs, path)
         IN IF ~e.ok THEN e
            ELSE IF is_file(e.val) THEN Err(FileNameNotAllowedError)
            ELSE Ok("unit")

-----------------------------------------------------------------------------
(* Volumes and inputs the model is run on                                  *)

\* 2021-03-15 10:30:00, a valid FAT timestamp
T2021 == DateTime(2021, 3, 15, 10, 30, 0)

\* what iterating a directory yields: the entries, then an Err item if err
Dir(items, e) == [err |-> e, entries |-> items]

\* root: A/ (dir 1), f (3 bytes, dated 1980-01-01), U+00C9 (1 byte, month 13)
\* A:    b (2 bytes), B/ (dir 2, shadowed by b), c/ (dir 2)
\* c:    f (empty, day 0)
Vol1 ==
    [d \in 0..2 |->
        CASE d = 0 ->
                Dir(<< DirEntry(<<65>>, TRUE, 1, <<>>, T2021),
                       DirEntry(<<102>>, FALSE, 0, <<7, 8, 9>>,
                                DateTime(1980, 1, 1, 0, 0, 0)),
                       DirEntry(<<201>>, FALSE, 0, <<5>>,
                                DateTime(2021, 13, 1, 0, 0, 0)) >>, FALSE)
          [] d = 1 ->
                Dir(<< DirEntry(<<98>>, FALSE, 0, <<1, 2>>,
                                DateTime(1999, 12, 31, 23, 59, 58)),
                       DirEntry(<<66>>, TRUE, 2, <<>>, T2021),
                       DirEntry(<<99>>, TRUE, 2, <<>>,
                                DateTime(2000, 2, 29, 0, 0, 0)) >>, FALSE)
          [] OTHER ->
                Dir(<< DirEntry(<<102>>, FALSE, 0, <<>>,
                                DateTime(2024, 2, 0, 0, 0, 0)) >>, FALSE)]

\* root: F/ (dir 1), f (1 byte): two names equal but for case, directory first
\* F:    b (2 bytes)
Vol2 ==
    [d \in 0..2 |->
        CASE d = 0 ->
                Dir(<< DirEntry(<<70>>, TRUE, 1, <<>>, T2021),
                       DirEntry(<<102>>, FALSE, 0, <<4>>, T2021) >>, FALSE)
          [] d = 1 ->
                Dir(<< DirEntry(<<98>>, FALSE, 0, <<6, 6>>, T2021) >>, FALSE)
          [] OTHER -> Dir(<<>>, FALSE)]

\* root: a/ (dir 1), then a corrupt chain
\* a:    b (1 byte)
Vol3 ==
    [d \in 0..2 |->
        CASE d = 0 -> Dir(<< DirEntry(<<97>>, TRUE, 1, <<>>, T2021) >>, TRUE)
          [] d = 1 ->
                Dir(<< DirEntry(<<98>>, FALSE, 0, <<3>>, T2021) >>, FALSE)
          [] OTHER -> Dir(<<>>, FALSE)]

Volumes == {Vol1, Vol2, Vol3}

\* the paths the operations are called with
Paths ==
    { <<47>>,                                   \* "/"
      <<>>,                                     \* ""
      <<47, 46>>,                               \* "/."
      <<47, 46, 46>>,                           \* "/.."
      <<47, 97, 47, 46, 46>>,                   \* "/a/.."
      <<47, 97>>,                               \* "/a"
      <<47, 102>>,                              \* "/f"
      <<47, 70>>,                               \* "/F"
      <<47, 65, 47, 98>>,                       \* "/A/b"
      <<47, 97, 47, 66>>,                       \* "/a/B"
      <<97, 47, 99>>,                           \* "a/c"
      <<47, 102, 47, 120>>,                     \* "/f/x"
      <<47, 97, 47, 98, 47, 102>>,              \* "/a/b/f"
      <<47, 122, 47, 120>>,                     \* "/z/x"
      <<47, 201>>,                              \* "/" U+00C9
      <<47, 233>>,                              \* "/" U+00E9
      <<47, 233, 47, 120>>,                     \* "/" U+00E9 "/x"
      <<47, 97, 47, 46, 46, 47, 97, 47, 99, 47, 46, 47, 102>> }
                                                \* "/a/../a/c/./f"

\* the paths of the two-session runs
ConcPaths == { <<47>>, <<47, 102>>, <<47, 97, 47, 98>>, <<47, 122>> }

\* the largest start_pos a read is called with
MaxStart == 4

\* the sessions the server calls the backend from
Sessions == {1, 2}

None == [some |-> FALSE]
Some(v) == [val |-> v, some |-> TRUE]

NoCall == [path |-> <<>>, start_pos |-> 0, op |-> "none", to |-> <<>>]
Call(o, p, t, n) == [path |-> p, start_pos |-> n, op |-> o, to |-> t]

-----------------------------------------------------------------------------
(* The backend's operations                                                *)

InitFs ==
    /\ img_path = "examples/my.img"
    /\ volume \in {Image(v) : v \in Volumes} \cup {NoFs}
    /\ seek_beyond_end \in {"error", "clamp"}

InitSessions ==
    /\ pc = [s \in Sessions |-> "idle"]
    /\ call = [s \in Sessions |-> NoCall]
    /\ ret = [s \in Sessions |-> None]
    /\ accessed = [s \in Sessions |-> FALSE]

\* the first statement of metadata, list, get and cwd: let fs = self.open_fs()?
Enter(s, c) ==
    /\ pc[s] = "idle"
    /\ call' = [call EXCEPT ![s] = c]
    /\ accessed' = [accessed EXCEPT ![s] = TRUE]
    /\ IF open_fs(volume).ok
       THEN /\ pc' = [pc EXCEPT ![s] = "opened"]
            /\ ret' = ret
       ELSE /\ pc' = [pc EXCEPT ![s] = "done"]
            /\ ret' = [ret EXCEPT ![s] = Some(open_fs(volume))]
    /\ UNCHANGED <<fsVars, normVars, timeVars>>

\* the rest of an operation, on the opened volume
Leave(s, op, result) ==
    /\ pc[s] = "opened"
    /\ call[s].op = op
    /\ pc' = [pc EXCEPT ![s] = "done"]
    /\ ret' = [ret EXCEPT ![s] = Some(result)]
    /\ UNCHANGED <<call, accessed, fsVars, normVars, timeVars>>

\* the whole of a mutation operation: Err(Error::from(ErrorKind::PermissionDenied))
Deny(s, c) ==
    /\ pc[s] = "idle"
    /\ call' = [call EXCEPT ![s] = c]
    /\ pc' = [pc EXCEPT ![s] = "done"]
    /\ ret' = [ret EXCEPT ![s] = Some(Err(PermissionDenied))]
    /\ UNCHANGED <<accessed, fsVars, normVars, timeVars>>

Metadata(s, path) == Enter(s, Call("metadata", path, <<>>, 0))

MetadataFind(s) == Leave(s, "metadata", metadata_found(open_fs(volume).val, call[s].path))

List(s, path) == Enter(s, Call("list", path, <<>>, 0))

ListDir(s) == Leave(s, "list", list_found(open_fs(volume).val, call[s].path))

Get(s, path, start_pos) == Enter(s, Call("get", path, <<>>, start_pos))

GetRead(s) ==
    Leave(s, "get",
          get_found(open_fs(volume).val, call[s].path, call[s].start_pos,
                    seek_beyond_end))

Cwd(s, path) == Enter(s, Call("cwd", path, <<>>, 0))

CwdFind(s) == Leave(s, "cwd", cwd_found(open_fs(volume).val, call[s].path))

Put(s, path, start_pos) == Deny(s, Call("put", path, <<>>, start_pos))

\* del as a backend that validates the path first would write it
DelLooksUp(s, path) ==
    /\ pc[s] = "idle"
    /\ call' = [call EXCEPT ![s] = Call("del", path, <<>>, 0)]
    /\ accessed' = [accessed EXCEPT ![s] = TRUE]
    /\ pc' = [pc EXCEPT ![s] = "done"]
    /\ ret' = [ret EXCEPT ![s] =
                  Some(IF ~open_fs(volume).ok THEN open_fs(volume)
                       ELSE IF ~find(open_fs(volume).val, path).ok
                       THEN find(open_fs(volume).val, path)
                       ELSE Err(PermissionDenied))]
    /\ UNCHANGED <<fsVars, normVars, timeVars>>

\* del as a backend that is not read-only would write it: the root directory
\* loses its entries
DelRemoves(s, path) ==
    /\ pc[s] = "idle"
    /\ call' = [call EXCEPT ![s] = Call("del", path, <<>>, 0)]
    /\ pc' = [pc EXCEPT ![s] = "done"]
    /\ ret' = [ret EXCEPT ![s] = Some(Err(PermissionDenied))]
    /\ volume' = IF volume.valid
                 THEN [volume EXCEPT !.dirs[RootDir].entries = <<>>]
                 ELSE volume
    /\ UNCHANGED <<accessed, img_path, seek_beyond_end, normVars, timeVars>>

Del(s, path) == Deny(s, Call("del", path, <<>>, 0))

Mkd(s, path) == Deny(s, Call("mkd", path, <<>>, 0))

Rename(s, from_path, to_path) ==
    Deny(s, Call("rename", from_path, to_path, 0))

Rmd(s, path) == Deny(s, Call("rmd", path, <<>>, 0))

\* the caller takes the result; the session is free for its next call
Return(s) ==
    /\ pc[s] = "done"
    /\ pc' = [pc EXCEPT ![s] = "idle"]
    /\ call' = [call EXCEPT ![s] = NoCall]
    /\ ret' = [ret EXCEPT ![s] = None]
    /\ accessed' = [accessed EXCEPT ![s] = FALSE]
    /\ UNCHANGED <<fsVars, normVars, timeVars>>

InitNormIdle ==
    /\ in_comps = <<>>
    /\ raw_path = <<>>
    /\ norm_path = None

InitTimeIdle ==
    /\ dt = DateTime(1980, 1, 1, 0, 0, 0)
    /\ modified_result = None

Init == InitFs /\ InitSessions /\ InitNormIdle /\ InitTimeIdle

\* one client: calls follow one another
Next ==
    \/ \E path \in Paths :
          \/ Metadata(1, path)
          \/ List(1, path)
          \/ \E n \in 0..MaxStart : Get(1, path, n)
          \/ Cwd(1, path)
          \/ \E n \in {0, MaxStart} : Put(1, path, n)
          \/ Del(1, path)
          \/ Mkd(1, path)
          \/ \E to_path \in ConcPaths : Rename(1, path, to_path)
          \/ Rmd(1, path)
    \/ MetadataFind(1)
    \/ ListDir(1)
    \/ GetRead(1)
    \/ CwdFind(1)
    \/ Return(1)

Spec == Init /\ [][Next]_vars

\* two clients: the calls of one interleave with the calls of the other
NextConc ==
    \E s \in Sessions :
        \/ \E path \in ConcPaths :
              \/ Metadata(s, path)
              \/ List(s, path)
              \/ \E n \in {0, MaxStart} : Get(s, path, n)
              \/ Cwd(s, path)
              \/ Put(s, path, 0)
              \/ Del(s, path)
              \/ Mkd(s, path)
              \/ Rename(s, path, <<47, 122>>)
              \/ Rmd(s, path)
        \/ MetadataFind(s)
        \/ ListDir(s)
        \/ GetRead(s)
        \/ CwdFind(s)
        \/ Return(s)

SpecConc == Init /\ [][NextConc]_vars

-----------------------------------------------------------------------------
(* normalize_path on its own: every input of up to MaxComps components     *)

\* the longest input path, in components
MaxComps == 4

\* ".", "..", and the ordinary names "a", "b", "c"
CompNames == { <<46>>, <<46, 46>>, <<97>>, <<98>>, <<99>> }

\* "/a/../a/b/./c" and "/a/b/c", by their components
ExampleComps ==
    { << <<97>>, <<46, 46>>, <<97>>, <<98>>, <<46>>, <<99>> >>,
      << <<97>>, <<98>>, <<99>> >> }

CompSeqs ==
    UNION { [1..n -> CompNames] : n \in 0..MaxComps } \cup ExampleComps

\* the path string: the components joined by '/', after `lead` ("/" or "")
RECURSIVE JoinPath(_, _)
JoinPath(lead, comps) ==
    IF comps = <<>> THEN lead
    ELSE JoinPath(IF lead = <<>> \/ lead = <<47>> THEN lead \o Head(comps)
                  ELSE lead \o <<47>> \o Head(comps),
                  Tail(comps))

InitNorm ==
    /\ in_comps \in CompSeqs
    /\ raw_path \in { JoinPath(<<47>>, in_comps), JoinPath(<<>>, in_comps) }
    /\ norm_path = None
    /\ img_path = "examples/my.img"
    /\ volume = NoFs
    /\ seek_beyond_end = "clamp"
    /\ InitSessions
    /\ InitTimeIdle

Normalize ==
    /\ norm_path = None
    /\ norm_path' = Some(normalize_path(raw_path))
    /\ UNCHANGED <<in_comps, raw_path, fsVars, sessVars, timeVars>>

NextNorm == Normalize

SpecNorm == InitNorm /\ [][NextNorm]_vars

-----------------------------------------------------------------------------
(* Meta::modified on its own: FAT timestamps around every boundary         *)

Years == {0, 1979, 1980, 1981, 1984, 2000, 2001, 2021, 2100, 2101, 2107, 65535}
Months == {0, 1, 2, 3, 12, 13, 15}
Days == {0, 1, 28, 29, 31, 32}
Times == { <<0, 0, 0>>, <<10, 30, 0>>, <<23, 59, 58>> }

InitTime ==
    /\ dt \in { DateTime(y, m, d, t[1], t[2], t[3]) :
                  y \in Years, m \in Months, d \in Days, t \in Times }
    /\ modified_result = None
    /\ img_path = "examples/my.img"
    /\ volume = NoFs
    /\ seek_beyond_end = "clamp"
    /\ InitSessions
    /\ InitNormIdle

Modified ==
    /\ modified_result = None
    /\ modified_result' =
           Some(modified([modified |-> dt, is_dir |-> FALSE, len |-> 0]))
    /\ UNCHANGED <<dt, fsVars, sessVars, normVars>>

NextTime == Modified

SpecTime == InitTime /\ [][NextTime]_vars

-----------------------------------------------------------------------------
(* What the specification's words mean, stated apart from the code         *)

MutationOps == {"put", "del", "mkd", "rename", "rmd"}
ReadOps == {"metadata", "list", "get", "cwd"}

Done(s, op) == pc[s] = "done" /\ call[s].op = op

\* the components of a slash-separated path: its non-empty pieces
SlashComps(path) == SelectSeq(split(path), LAMBDA piece : piece # <<>>)

\* skip ".", push an ordinary name, pop on ".." unless the stack is empty
RECURSIVE StackNorm(_, _)
StackNorm(comps, stack) ==
    IF comps = <<>> THEN stack
    ELSE StackNorm(Tail(comps),
                   CASE Head(comps) = <<46>> -> stack
                     [] Head(comps) = <<46, 46>> ->
                            IF stack = <<>> THEN stack
                            ELSE SubSeq(stack, 1, Len(stack) - 1)
                     [] OTHER -> Append(stack, Head(comps)))

\* the normalized components of a path
NormComps(path) == StackNorm(SlashComps(path), <<>>)

\* the lower-case form of a letter: 'A'..'Z' and the Latin-1 capitals
\* U+00C0..U+00DE (but the sign U+00D7) have one, 32 above
LetterLower(c) ==
    IF c \in 65..90 \/ (c \in 192..222 /\ c # 215) THEN c + 32 ELSE c

\* two names equal ignoring letter case
SameIgnoringCase(a, b) ==
    /\ Len(a) = Len(b)
    /\ \A i \in 1..Len(a) : LetterLower(a[i]) = LetterLower(b[i])

\* two names equal ignoring the case of ASCII letters only
SameIgnoringAsciiCase(a, b) ==
    /\ Len(a) = Len(b)
    /\ \A i \in 1..Len(a) :
          (IF a[i] \in 65..90 THEN a[i] + 32 ELSE a[i])
          = (IF b[i] \in 65..90 THEN b[i] + 32 ELSE b[i])

\* equal names, ignoring the case of all letters or of ASCII letters only
Same(ascii_only, a, b) ==
    IF ascii_only THEN SameIgnoringAsciiCase(a, b) ELSE SameIgnoringCase(a, b)

\* the position of the first entry of `dir` named `name`, or 0
FirstMatch(dir, name, ascii_only) ==
    LET hits == { i \in 1..Len(dir.entries) :
                    Same(ascii_only, dir.entries[i].name, name) }
    IN IF hits = {} THEN 0 ELSE CHOOSE i \in hits : \A j \in hits : i <= j

\* first-match-wins resolution of normalized components from directory `cur`:
\* the entry found, or the failure
RECURSIVE Resolve(_, _, _, _)
Resolve(fs, cur, comps, ascii_only) ==
    LET m == FirstMatch(fs[cur], Head(comps), ascii_only)
        e == fs[cur].entries[m]
    IN IF m = 0 THEN Err(PermanentFileNotAvailable)
       ELSE IF Len(comps) = 1 THEN Ok(e)
       ELSE IF e.is_dir THEN Resolve(fs, e.dir, Tail(comps), ascii_only)
       ELSE Err(FileNameNotAllowedError)

\* what the walk meets before the final component: "file" when a non-final
\* component's first match is a file, "missing" when one has no match
RECURSIVE Traverse(_, _, _, _)
Traverse(fs, cur, comps, ascii_only) ==
    IF Len(comps) <= 1 THEN "final"
    ELSE LET m == FirstMatch(fs[cur], Head(comps), ascii_only)
             e == fs[cur].entries[m]
         IN IF m = 0 THEN "missing"
            ELSE IF ~e.is_dir THEN "file"
            ELSE Traverse(fs, e.dir, Tail(comps), ascii_only)

-----------------------------------------------------------------------------
(* C1                                                                      *)

\* C1: a mutation operation (put, del, mkd, rename, rmd), whatever its path
\* and whatever is at img_path, returns PermissionDenied and has not opened
\* the volume.
C1_MutationsDenied ==
    \A s \in Sessions :
        (pc[s] = "done" /\ call[s].op \in MutationOps)
            => /\ ret[s] = Some(Err(PermissionDenied))
               /\ ~accessed[s]

\* del of a path that does not exist, on an image that cannot be opened
C1_Witness ==
    /\ Done(1, "del")
    /\ call[1].path = <<47, 122, 47, 120>>
    /\ ~volume.valid
    /\ ret[1] = Some(Err(PermissionDenied))

-----------------------------------------------------------------------------
(* C2                                                                      *)

\* the outcome a read operation's result must have once the walk to its path
\* (of two or more normalized components) is cut short
TraversalRejected(s, ascii_only) ==
    LET t == Traverse(volume.dirs, RootDir, NormComps(call[s].path),
                      ascii_only)
    IN /\ t = "file" => ret[s] = Some(Err(FileNameNotAllowedError))
       /\ t = "missing" => ret[s] = Some(Err(PermanentFileNotAvailable))

\* C2: for a path of two or more normalized components, metadata, list, get
\* and cwd fail with FileNameNotAllowedError when the first case-insensitive
\* match of a non-final component is a file, whatever follows it, and with
\* PermanentFileNotAvailable when a non-final component has no match.
C2_TraversalRejection ==
    \A s \in Sessions :
        (/\ pc[s] = "done"
         /\ call[s].op \in ReadOps
         /\ volume.valid
         /\ Len(NormComps(call[s].path)) >= 2)
            => TraversalRejected(s, FALSE)

\* the same with names compared as the code compares them, ignoring the case
\* of ASCII letters only: this form holds
C2_AsciiTraversalRejection ==
    \A s \in Sessions :
        (/\ pc[s] = "done"
         /\ call[s].op \in ReadOps
         /\ volume.valid
         /\ Len(NormComps(call[s].path)) >= 2)
            => TraversalRejected(s, TRUE)

\* metadata("/f/x") with f a plain file is refused as not allowed, and
\* metadata("/a/b/f") is refused at the file b although the directory B follows
C2_AsciiWitness ==
    /\ Done(1, "metadata")
    /\ volume = Image(Vol1)
    /\ call[1].path = <<47, 97, 47, 98, 47, 102>>
    /\ ret[1] = Some(Err(FileNameNotAllowedError))

-----------------------------------------------------------------------------
(* C3                                                                      *)

\* the result metadata must have when resolution is first-match-wins
ResolvedFirstMatch(s, ascii_only) ==
    LET r == Resolve(volume.dirs, RootDir, NormComps(call[s].path), ascii_only)
    IN ret[s] = Some(IF r.ok THEN Ok(Meta(r.val)) ELSE r)

\* C3: resolution is case-insensitive and first-match-wins: metadata of a
\* non-root path describes the first entry, in enumeration order, whose name
\* equals the final component ignoring letter case, in the directory reached
\* by the same rule; paths differing only in letter case resolve alike.
C3_CaseInsensitiveFirstMatch ==
    \A s \in Sessions :
        (/\ Done(s, "metadata")
         /\ volume.valid
         /\ NormComps(call[s].path) # <<>>
         /\ \A d \in DOMAIN volume.dirs : ~volume.dirs[d].err)
            => ResolvedFirstMatch(s, FALSE)

\* the same ignoring the case of ASCII letters only: this form holds
C3_AsciiCaseFirstMatch ==
    \A s \in Sessions :
        (/\ Done(s, "metadata")
         /\ volume.valid
         /\ NormComps(call[s].path) # <<>>
         /\ \A d \in DOMAIN volume.dirs : ~volume.dirs[d].err)
            => ResolvedFirstMatch(s, TRUE)

\* metadata("/a/B") finds the file b, the first entry of A matching "B"
C3_AsciiWitness ==
    /\ Done(1, "metadata")
    /\ volume = Image(Vol1)
    /\ call[1].path = <<47, 97, 47, 66>>
    /\ ret[1].val.ok
    /\ ~ret[1].val.val.is_dir
    /\ ret[1].val.val.len = 2

-----------------------------------------------------------------------------
(* C4                                                                      *)

\* C4: for every path whose normalized form is the root ("/", "", "/.",
\* "/..", "/a/.."), list returns the entries of the root directory and cwd
\* succeeds.
C4_RootHandling ==
    \A s \in Sessions :
        (/\ pc[s] = "done"
         /\ volume.valid
         /\ NormComps(call[s].path) = <<>>)
            => /\ call[s].op = "cwd" => ret[s] = Some(Ok("unit"))
               /\ (call[s].op = "list" /\ ~volume.dirs[RootDir].err)
                      => /\ ret[s].val.ok
                         /\ Len(ret[s].val.val)
                                = Len(volume.dirs[RootDir].entries)

\* the same for the literal path "/" only: this form holds
C4_LiteralRootHandling ==
    \A s \in Sessions :
        (/\ pc[s] = "done"
         /\ volume.valid
         /\ call[s].path = <<47>>)
            => /\ call[s].op = "cwd" => ret[s] = Some(Ok("unit"))
               /\ (call[s].op = "list" /\ ~volume.dirs[RootDir].err)
                      => /\ ret[s].val.ok
                         /\ Len(ret[s].val.val)
                                = Len(volume.dirs[RootDir].entries)

-----------------------------------------------------------------------------
(* C5                                                                      *)

\* the components of a normalized path, as find splits it
NormalizedComps(path) == IF path = <<>> THEN <<>> ELSE split(path)

\* C5: normalize_path yields exactly the stack obtained by skipping ".",
\* pushing each ordinary name and popping on ".." only when the stack is not
\* empty; the result holds no "." and no ".." and never leaves the root.
C5_NormalizeIsStack ==
    norm_path.some
        => /\ NormalizedComps(norm_path.val) = StackNorm(in_comps, <<>>)
           /\ \A i \in 1..Len(NormalizedComps(norm_path.val)) :
                  NormalizedComps(norm_path.val)[i]
                      \notin {<<>>, <<46>>, <<46, 46>>}

\* "/a/../a/b/./c" normalizes to the components a, b, c, as "/a/b/c" does
C5_Witness ==
    /\ raw_path = <<47, 97, 47, 46, 46, 47, 97, 47, 98, 47, 46, 47, 99>>
    /\ norm_path.some
    /\ NormalizedComps(norm_path.val) = << <<97>>, <<98>>, <<99>> >>
    /\ normalize_path(<<47, 97, 47, 98, 47, 99>>) = norm_path.val
    /\ normalize_path(<<47, 46, 46>>) = <<>>

-----------------------------------------------------------------------------
(* C6                                                                      *)

\* leap years before `year`, by the Gregorian rule, counted from year 1
LeapYearsBefore(year) ==
    ((year - 1) \div 4) - ((year - 1) \div 100) + ((year - 1) \div 400)

\* days before the first of each month in a common year
DaysBeforeMonth == <<0, 31, 59, 90, 120, 151, 181, 212, 243, 273, 304, 334>>

\* the days from 1980-01-01 to a date, in exact calendar arithmetic
CalendarDays(year, month, day) ==
    365 * (year - 1980) + (LeapYearsBefore(year) - LeapYearsBefore(1980))
    + DaysBeforeMonth[month]
    + (IF month > 2 /\ LeapYearsBefore(year + 1) > LeapYearsBefore(year)
       THEN 1 ELSE 0)
    + (day - 1)

InRange(t) == t.year >= 1980 /\ t.month \in 1..12 /\ t.day \in 1..31

\* C6: for year >= 1980, month in 1..12 and day in 1..31 modified returns
\* 315,532,800 + 86400 * D + 3600 * hour + 60 * minute + second seconds after
\* the Unix epoch, D the calendar days since 1980-01-01; no u32 wraps, for
\* any u16 year.
C6_ModifiedIsCalendarTime ==
    (modified_result.some /\ InRange(dt))
        => modified_result.val =
               Ok(Seconds(3652 + CalendarDays(dt.year, dt.month, dt.day),
                          3600 * dt.hour + 60 * dt.min + dt.sec))

\* 1980-01-01T00:00:00 is 3652 days, 315,532,800 seconds, after the epoch
C6_Witness ==
    /\ dt = DateTime(1980, 1, 1, 0, 0, 0)
    /\ modified_result = Some(Ok(Seconds(0, 315532800)))
    /\ Seconds(0, 315532800) = [s |-> 0, d |-> 3652]

-----------------------------------------------------------------------------
(* C7                                                                      *)

\* C7: for year < 1980, or month outside 1..12, or day outside 1..31,
\* modified fails with PermanentFileNotAvailable; no successful result is
\* earlier than the FAT epoch.
C7_InvalidTimestampFails ==
    modified_result.some
        => /\ ~InRange(dt)
                => modified_result.val = Err(PermanentFileNotAvailable)
           /\ modified_result.val.ok => modified_result.val.val.d >= 3652

\* 1979-12-31 fails
C7_Witness ==
    /\ dt.year = 1979 /\ dt.month = 12 /\ dt.day = 31
    /\ modified_result = Some(Err(PermanentFileNotAvailable))

-----------------------------------------------------------------------------
(* C8                                                                      *)

\* the file a get is for, when its path resolves to one
GetsFile(s) ==
    /\ Done(s, "get")
    /\ volume.valid
    /\ find(volume.dirs, call[s].path).ok
    /\ ~find(volume.dirs, call[s].path).val.is_dir

\* the bytes of a file from offset n to its end
BytesFrom(entry, n) == [i \in 1..(entry.len - n) |-> entry.data[n + i]]

-----------------------------------------------------------------------------
(* C9                                                                      *)

\* what a call returns when it is the only call ever made
Alone(image, beyond_end, c) ==
    IF c.op \in MutationOps THEN Err(PermissionDenied)
    ELSE IF ~open_fs(image).ok THEN open_fs(image)
    ELSE CASE c.op = "metadata" -> metadata_found(image.dirs, c.path)
           [] c.op = "list" -> list_found(image.dirs, c.path)
           [] c.op = "get" ->
                  get_found(image.dirs, c.path, c.start_pos, beyond_end)
           [] OTHER -> cwd_found(image.dirs, c.path)

\* C9: no step of any interleaving of calls changes the volume or the
\* backend's state, and every call returns what it returns alone.
C9_NoSharedState ==
    [][/\ fsVars' = fsVars
       /\ \A s \in Sessions :
              pc'[s] = "done"
                  => ret'[s] = Some(Alone(volume, seek_beyond_end, call'[s]))
      ]_vars

\* session 2 lists the root while session 1, between its open and its read,
\* is overtaken by it
C9_Witness ==
    /\ pc[1] = "opened" /\ call[1].op = "get"
    /\ Done(2, "list")
    /\ volume = Image(Vol1)
    /\ ret[2].val.ok

-----------------------------------------------------------------------------
(* C10                                                                     *)

\* the directory a list is for, when its path is one whose iteration succeeds
ListsDir(s) ==
    /\ Done(s, "list")
    /\ volume.valid
    /\ \/ call[s].path = <<47>>
       \/ /\ find(volume.dirs, call[s].path).ok
          /\ find(volume.dirs, call[s].path).val.is_dir

ListedDir(s) ==
    IF call[s].path = <<47>> THEN volume.dirs[RootDir]
    ELSE volume.dirs[find(volume.dirs, call[s].path).val.dir]

\* C10: list of a readable directory returns one record per entry, in the
\* directory's order, whatever the entries' timestamps; an invalid timestamp
\* shows only as the error of that record's modified.
C10_ListKeepsEveryEntry ==
    \A s \in Sessions :
        (ListsDir(s) /\ ~ListedDir(s).err)
            => /\ ret[s].val.ok
               /\ Len(ret[s].val.val) = Len(ListedDir(s).entries)
               /\ \A i \in 1..Len(ListedDir(s).entries) :
                      LET e == ListedDir(s).entries[i]
                          r == ret[s].val.val[i]
                      IN /\ r.path = e.name
                         /\ r.metadata.is_dir = e.is_dir
                         /\ r.metadata.len = e.len
                         /\ modified(r.metadata).ok = InRange(e.modified)

\* list("/") of the volume whose third entry has month 13: three records,
\* the third with a failing modified
C10_Witness ==
    /\ Done(1, "list")
    /\ volume = Image(Vol1)
    /\ call[1].path = <<47>>
    /\ ret[1].val.ok
    /\ Len(ret[1].val.val) = 3
    /\ modified(ret[1].val.val[1].metadata).ok
    /\ ~modified(ret[1].val.val[3].metadata).ok

====
